---- MODULE Spec2Model ----
(***************************************************************************)
(* Model of the invoice question-answering demo: the file selection        *)
(* heuristic find_relevant_files (src/src/lib.rs and src/src/main.rs), the *)
(* command line pipeline of main (src/src/main.rs), the generation client  *)
(* query_ollama (src/src/lib.rs) and the response normalizer of the        *)
(* service, whose code is not among the source files and is modelled from  *)
(* section 4.4 of the specification.                                       *)
(*                                                                         *)
(* A string is a sequence of one-character strings.  A directory snapshot  *)
(* is the sequence of file names read_dir yields, in enumeration order; a  *)
(* path is stood for by its file name, the directory prefix being the same *)
(* for every entry of one request.                                         *)
(***************************************************************************)
EXTENDS Integers, Sequences, FiniteSets, TLC

VARIABLES
    pc,           \* position of the running entry point
    unit,         \* the entry point: "lib_select", "main_select", "main", "lib", "normalize"
    entries,      \* directory snapshot: file names in enumeration order
    read_dir_ok,  \* whether fs::read_dir succeeded for this request
    query,        \* the query string
    matches,      \* result of find_relevant_files (relevant_files in main)
    dir_exists,   \* result of data_dir.exists()
    used,         \* file names printed under "Using N relevant invoice(s)"
    pending,      \* files main has still to read
    contents,     \* the documents concatenated so far, one segment per file
    prompt,       \* the rendered prompt of the request body
    posts,        \* number of HTTP POSTs sent to the backend
    res,          \* the HTTP response received
    err,          \* the error the request ended with
    answer,       \* the answer the request produced
    pretty,       \* main's optional pretty-printed JSON
    raw_text,     \* raw reply text handed to the normalizer
    normalized    \* the normalizer's result

vars == <<pc, unit, entries, read_dir_ok, query, matches, dir_exists, used, pending,
          contents, prompt, posts, res, err, answer, pretty, raw_text, normalized>>

-----------------------------------------------------------------------------
(* Bounds of the model *)

MaxDirLen == 3
MaxQueryWords == 2
MaxMainDirLen == 2
MaxMainQueryWords == 2
MaxReplyLen == 5

-----------------------------------------------------------------------------
(* Strings *)

UpperChars == <<"A","B","C","D","E","F","G","H","I","J","K","L","M",
                "N","O","P","Q","R","S","T","U","V","W","X","Y","Z">>
LowerChars == <<"a","b","c","d","e","f","g","h","i","j","k","l","m",
                "n","o","p","q","r","s","t","u","v","w","x","y","z">>

LowerChar(c) ==
    IF \E i \in 1..Len(UpperChars) : UpperChars[i] = c
    THEN LowerChars[CHOOSE i \in 1..Len(UpperChars) : UpperChars[i] = c]
    ELSE c

\* str::to_lowercase, on the ASCII letters the model's strings are made of
to_lowercase(s) == [i \in 1..Len(s) |-> LowerChar(s[i])]

\* str::contains(&str): the needle occurs as a contiguous substring
contains(haystack, needle) ==
    \E i \in 0..(Len(haystack) - Len(needle)) :
        SubSeq(haystack, i + 1, i + Len(needle)) = needle

\* str::ends_with
ends_with(s, suffix) ==
    /\ Len(s) >= Len(suffix)
    /\ SubSeq(s, Len(s) - Len(suffix) + 1, Len(s)) = suffix

\* the whitespace characters of the model's strings
IsSpace(c) == c \in {" ", "\n", "\t", "\r"}

RECURSIVE trim_start(_)
trim_start(s) == IF s # <<>> /\ IsSpace(Head(s)) THEN trim_start(Tail(s)) ELSE s

RECURSIVE trim_end(_)
trim_end(s) ==
    IF s # <<>> /\ IsSpace(s[Len(s)]) THEN trim_end(SubSeq(s, 1, Len(s) - 1)) ELSE s

\* str::trim
trim(s) == trim_end(trim_start(s))

\* position of the last "." of a file name, 0 when it has none
LastDot(name) ==
    IF \E i \in 1..Len(name) : name[i] = "."
    THEN CHOOSE i \in 1..Len(name) :
            /\ name[i] = "."
            /\ \A j \in (i + 1)..Len(name) : name[j] # "."
    ELSE 0

\* Path::file_stem: the whole name when it has no "." or only a leading one,
\* otherwise the part before the last "."
file_stem(name) ==
    IF LastDot(name) <= 1 THEN name ELSE SubSeq(name, 1, LastDot(name) - 1)

None == [some |-> FALSE, val |-> <<>>]
Some(v) == [some |-> TRUE, val |-> v]

\* Path::extension: None when the name has no "." or only a leading one,
\* otherwise the part after the last "."
extension(name) ==
    IF LastDot(name) <= 1 THEN None
    ELSE Some(SubSeq(name, LastDot(name) + 1, Len(name)))

DotTxt == <<".", "t", "x", "t">>
Txt == <<"t", "x", "t">>
Invoice == <<"i", "n", "v", "o", "i", "c", "e">>

-----------------------------------------------------------------------------
(* find_relevant_files *)

FallbackTakeLib == 2
FallbackTakeMain == 1

\* fs::read_dir(data_dir) followed by entries.flatten(): a failed read yields
\* no entries
ReadDir(dir, ok) == IF ok THEN dir ELSE <<>>

StemMatchesCaseSensitive(file_name, lower_query) ==
    \/ contains(lower_query, file_stem(file_name))
    \/ contains(lower_query, Invoice)

\* the condition of the first pass for one .txt entry
StemMatches(file_name, lower_query) ==
    \/ contains(lower_query, to_lowercase(file_stem(file_name)))
    \/ contains(lower_query, Invoice)

LowerQueryRaw(q) == q

\* let lower_query = query.to_lowercase()
LowerQuery(q) == to_lowercase(q)

RECURSIVE FirstPassNoTxtFilter(_, _)
FirstPassNoTxtFilter(listing, lower_query) ==
    IF listing = <<>> THEN <<>>
    ELSE (IF StemMatches(Head(listing), lower_query) THEN <<Head(listing)>> ELSE <<>>)
         \o FirstPassNoTxtFilter(Tail(listing), lower_query)

\* the first loop: every entry whose name ends with ".txt" and whose stem
\* occurs in the query, or every such entry when the query mentions "invoice"
RECURSIVE FirstPass(_, _)
FirstPass(listing, lower_query) ==
    IF listing = <<>> THEN <<>>
    ELSE (IF /\ ends_with(Head(listing), DotTxt)
             /\ StemMatches(Head(listing), lower_query)
          THEN <<Head(listing)>> ELSE <<>>)
         \o FirstPass(Tail(listing), lower_query)

\* Iterator::take(n)
Take(listing, n) == SubSeq(listing, 1, IF Len(listing) < n THEN Len(listing) ELSE n)

\* the second loop: of the first n entries, those whose extension is "txt"
RECURSIVE FallbackPass(_)
FallbackPass(taken) ==
    IF taken = <<>> THEN <<>>
    ELSE (IF extension(Head(taken)) = Some(Txt) THEN <<Head(taken)>> ELSE <<>>)
         \o FallbackPass(Tail(taken))

\* find_relevant_files(data_dir, query), with the fallback's take(n) as parameter
find_relevant_files(dir, ok, q, take) ==
    LET first == FirstPass(ReadDir(dir, ok), LowerQuery(q))
    IN  IF first = <<>> THEN FallbackPass(Take(ReadDir(dir, ok), take)) ELSE first

-----------------------------------------------------------------------------
(* JSON text: serde_json::from_str::<Value>, on numbers, strings without     *)
(* escapes and arrays.  A value is [kind, text, items].                      *)

JsonNum(digits) == [kind |-> "num", text |-> digits, items |-> <<>>]
JsonStr(chars) == [kind |-> "str", text |-> chars, items |-> <<>>]
JsonArr(values) == [kind |-> "arr", text |-> <<>>, items |-> values]
JsonMember(key, value) == [kind |-> "member", text |-> key, items |-> <<value>>]
JsonObj(members) == [kind |-> "obj", text |-> <<>>, items |-> members]

ParseFail == [ok |-> FALSE, val |-> JsonArr(<<>>), rest |-> <<>>]
ParseOk(v, rest) == [ok |-> TRUE, val |-> v, rest |-> rest]

\* JSON whitespace is skipped between tokens
SkipWs(s) == trim_start(s)

\* the longest prefix of s made of the character c
RECURSIVE Run(_, _)
Run(s, c) == IF s # <<>> /\ Head(s) = c THEN <<c>> \o Run(Tail(s), c) ELSE <<>>

\* position of the first occurrence of c in s, 0 when there is none
FirstIndex(s, c) ==
    IF \E i \in 1..Len(s) : s[i] = c
    THEN CHOOSE i \in 1..Len(s) : s[i] = c /\ \A j \in 1..(i - 1) : s[j] # c
    ELSE 0

RECURSIVE ParseValue(_)
RECURSIVE ParseElements(_, _)

\* one JSON value at the head of s (leading whitespace skipped)
ParseValue(text) ==
    LET s == SkipWs(text) IN
    IF s = <<>> THEN ParseFail
    ELSE IF Head(s) = "1" THEN
        ParseOk(JsonNum(Run(s, "1")), SubSeq(s, Len(Run(s, "1")) + 1, Len(s)))
    ELSE IF Head(s) = "\"" THEN
        LET close == FirstIndex(Tail(s), "\"") IN
        IF close = 0 THEN ParseFail
        ELSE ParseOk(JsonStr(SubSeq(Tail(s), 1, close - 1)),
                     SubSeq(Tail(s), close + 1, Len(Tail(s))))
    ELSE IF Head(s) = "[" THEN
        LET inner == SkipWs(Tail(s)) IN
        IF inner # <<>> /\ Head(inner) = "]" THEN ParseOk(JsonArr(<<>>), Tail(inner))
        ELSE ParseElements(inner, <<>>)
    ELSE ParseFail

\* the elements of an array after "[", up to and including its "]"
ParseElements(text, acc) ==
    LET v == ParseValue(text) IN
    IF ~v.ok THEN ParseFail
    ELSE LET s == SkipWs(v.rest) IN
         IF s = <<>> THEN ParseFail
         ELSE IF Head(s) = "," THEN ParseElements(Tail(s), Append(acc, v.val))
         ELSE IF Head(s) = "]" THEN ParseOk(JsonArr(Append(acc, v.val)), Tail(s))
         ELSE ParseFail

from_str_lenient(text) ==
    LET v == ParseValue(text) IN
    IF v.ok THEN ParseOk(v.val, <<>>) ELSE ParseFail

\* serde_json::from_str::<Value>: one value, then nothing but whitespace
from_str(text) ==
    LET v == ParseValue(text) IN
    IF v.ok /\ SkipWs(v.rest) = <<>> THEN ParseOk(v.val, <<>>) ELSE ParseFail

-----------------------------------------------------------------------------
(* The backend's wire format: {"response": string, "done": bool} *)

BodyPrefix ==
    <<"{", "\"", "r", "e", "s", "p", "o", "n", "s", "e", "\"", ":", "\"" >>
BodyMid ==
    <<"\"", ",", "\"", "d", "o", "n", "e", "\"", ":" >>
BodyTrue ==
    <<"t", "r", "u", "e", "}" >>
BodyFalse ==
    <<"f", "a", "l", "s", "e", "}" >>

DecodeFail == [ok |-> FALSE, response |-> <<>>, done |-> FALSE]

BodyOf(response, done) ==
    BodyPrefix \o response \o BodyMid \o (IF done THEN BodyTrue ELSE BodyFalse)

\* res.json::<OllamaResponse>() on a body that was read: the bodies of the
\* model are written without optional whitespace or escapes, the fields in
\* the order of the struct; any other text does not decode
DecodeOllamaResponse(body) ==
    IF \E n \in 0..Len(body) : \E d \in BOOLEAN :
            /\ Len(body) >= Len(BodyPrefix) + n
            /\ ~contains(SubSeq(body, Len(BodyPrefix) + 1, Len(BodyPrefix) + n), <<"\"">>)
            /\ body = BodyOf(SubSeq(body, Len(BodyPrefix) + 1, Len(BodyPrefix) + n), d)
    THEN LET n == CHOOSE n \in 0..Len(body) : \E d \in BOOLEAN :
                    /\ Len(body) >= Len(BodyPrefix) + n
                    /\ ~contains(SubSeq(body, Len(BodyPrefix) + 1, Len(BodyPrefix) + n), <<"\"">>)
                    /\ body = BodyOf(SubSeq(body, Len(BodyPrefix) + 1, Len(BodyPrefix) + n), d)
         IN  [ok |-> TRUE,
              response |-> SubSeq(body, Len(BodyPrefix) + 1, Len(BodyPrefix) + n),
              done |-> ends_with(body, BodyTrue)]
    ELSE DecodeFail

\* StatusCode::is_success: 200..=299
is_success(status) == status >= 200 /\ status <= 299

\* the digits of a status code
StatusDigits(status) ==
    CASE status = 200 -> <<"2", "0", "0">>
      [] status = 404 -> <<"4", "0", "4">>
      [] status = 500 -> <<"5", "0", "0">>

\* Display of StatusCode: the code and its canonical reason phrase
StatusDisplay(status) ==
    CASE status = 200 -> StatusDigits(status) \o
                <<" ", "O", "K" >>
      [] status = 404 -> StatusDigits(status) \o
                <<" ", "N", "o", "t", " ", "F", "o", "u", "n", "d" >>
      [] status = 500 -> StatusDigits(status) \o
                <<" ", "I", "n", "t", "e", "r", "n", "a", "l", " ", "S", "e", "r", "v",
                  "e", "r", " ", "E", "r", "r", "o", "r" >>

-----------------------------------------------------------------------------
(* Error messages *)

Error(text) == [set |-> TRUE, text |-> text]
Printed(text) == [set |-> TRUE, text |-> text]
Returned(text) == [set |-> TRUE, text |-> text]

DataDir ==
    <<"d", "a", "t", "a", "/", "i", "n", "v", "o", "i", "c", "e", "-", "p", "r", "o",
      "c" >>

MsgDataFolderNotFound ==
    <<"D", "a", "t", "a", " ", "f", "o", "l", "d", "e", "r", " ", "n", "o", "t", " ",
      "f", "o", "u", "n", "d", ":", " " >>
    \o DataDir

MsgNoInvoiceFiles ==
    <<"N", "o", " ", "i", "n", "v", "o", "i", "c", "e", " ", "f", "i", "l", "e", "s",
      " ", "f", "o", "u", "n", "d", " ", "i", "n", " " >>
    \o DataDir

MsgFailedToRead(path) ==
    <<"F", "a", "i", "l", "e", "d", " ", "t", "o", " ", "r", "e", "a", "d", " " >>
    \o DataDir \o <<"/">> \o path

\* the context message of main.rs:142, its dash and backquotes written - and '
MsgCannotReachMain ==
    <<"C", "a", "n", "n", "o", "t", " ", "r", "e", "a", "c", "h", " ", "O", "l", "l",
      "a", "m", "a", " ", "-", " ", "i", "s", " ", "'", "o", "l", "l", "a", "m", "a",
      " ", "s", "e", "r", "v", "e", "'", " ", "o", "r", " ", "'", "o", "l", "l", "a",
      "m", "a", " ", "r", "u", "n", " ", "l", "l", "a", "m", "a", "3", ".", "2", "'",
      " ", "a", "c", "t", "i", "v", "e", "?" >>

MsgCannotReachLib ==
    <<"C", "a", "n", "n", "o", "t", " ", "r", "e", "a", "c", "h", " ", "O", "l", "l",
      "a", "m", "a" >>

NoResponseBody ==
    <<"N", "o", " ", "r", "e", "s", "p", "o", "n", "s", "e", " ", "b", "o", "d", "y" >>

MsgStatusMainNoStatus(status, text) ==
    <<"O", "l", "l", "a", "m", "a", " ", "f", "a", "i", "l", "e", "d", " ", "w", "i",
      "t", "h", " ", "s", "t", "a", "t", "u", "s", " " >>
    \o
    <<".", "\n", "B", "o", "d", "y", ":", " " >>
    \o trim(text)

\* main.rs: "Ollama failed with status {}.\nBody: {}", status, text.trim()
MsgStatusMain(status, text) ==
    <<"O", "l", "l", "a", "m", "a", " ", "f", "a", "i", "l", "e", "d", " ", "w", "i",
      "t", "h", " ", "s", "t", "a", "t", "u", "s", " " >>
    \o StatusDisplay(status) \o
    <<".", "\n", "B", "o", "d", "y", ":", " " >>
    \o trim(text)

\* lib.rs: "Ollama error {}: {}", status, text
MsgStatusLib(status, text) ==
    <<"O", "l", "l", "a", "m", "a", " ", "e", "r", "r", "o", "r", " " >>
    \o StatusDisplay(status) \o <<":", " ">> \o text

MsgInvalidJsonMain ==
    <<"I", "n", "v", "a", "l", "i", "d", " ", "J", "S", "O", "N", " ", "f", "r", "o",
      "m", " ", "O", "l", "l", "a", "m", "a" >>

MsgInvalidJsonLib ==
    <<"I", "n", "v", "a", "l", "i", "d", " ", "O", "l", "l", "a", "m", "a", " ", "r",
      "e", "s", "p", "o", "n", "s", "e" >>

-----------------------------------------------------------------------------
(* Inputs *)

FileNames ==
    { <<"A", ".", "t", "x", "t">>,
      <<"b", ".", "t", "x", "t">>,
      <<"a", "x", ".", "t", "x", "t">>,
      <<"a", ".", "m", "d">>,
      <<".", "t", "x", "t">>,
      <<"n", "o", "t", "e", "s">> }

QueryWords ==
    { <<"a">>, <<"B">>, <<"x">>, <<" ">>,
      <<"I", "n", "v", "o", "i", "c">>, <<"E">> }

RECURSIVE Concat(_)
Concat(words) == IF words = <<>> THEN <<>> ELSE Head(words) \o Concat(Tail(words))

SeqsUpTo(S, n) == UNION { [1..k -> S] : k \in 0..n }

IsInjective(s) == \A i, j \in 1..Len(s) : i # j => s[i] # s[j]

\* directory snapshots: names are distinct within one directory
Dirs(n) == { d \in SeqsUpTo(FileNames, n) : IsInjective(d) }

Queries(n) == { Concat(w) : w \in SeqsUpTo(QueryWords, n) }

NoMsg == [set |-> FALSE, text |-> <<>>]

Statuses == {200, 404, 500}

Bodies ==
    { BodyOf(<<"[", "1", "]">>, TRUE),
      BodyOf(<<" ", "a", " ">>, FALSE),
      <<"{", "}">>,
      <<"x", " ">>,
      <<>> }

\* what the backend may answer
Responses == [status : Statuses, body : Bodies, read : {"unread"}]

NoResponse == [status |-> 0, body |-> <<>>, read |-> "unread"]

\* res.text() / res.json() consume the body, which may fail in transit
BodyRead(r, ok) == [r EXCEPT !.read = IF ok THEN "ok" ELSE "failed"]

\* the text of a document, read at query time
FileText(path) == <<"#">> \o path

\* "\n--- Invoice from {path} ---\n{text}\n": one labelled segment of contents
Segment(path, text) == [path |-> path, text |-> text]

\* the prompt: a fixed preamble, the documents, the question
Prompt(preamble, docs, q) == [preamble |-> preamble, contents |-> docs, query |-> q]

NoPrompt == Prompt("", <<>>, <<>>)

\* contents handed to query_ollama by its caller
LibContents == { <<>>, <<Segment(<<"b", ".", "t", "x", "t">>, <<"#">>)>> }

-----------------------------------------------------------------------------
(* Specification of the selection alone: both copies of find_relevant_files *)

InitSelect ==
    /\ pc = "start"
    /\ unit \in {"lib_select", "main_select"}
    /\ entries \in Dirs(MaxDirLen)
    /\ read_dir_ok = FALSE
    /\ query \in Queries(MaxQueryWords)
    /\ matches = <<>>
    /\ dir_exists = FALSE
    /\ used = <<>>
    /\ pending = <<>>
    /\ contents = <<>>
    /\ prompt = NoPrompt
    /\ posts = 0
    /\ res = NoResponse
    /\ err = NoMsg
    /\ answer = NoMsg
    /\ pretty = NoMsg
    /\ raw_text = <<>>
    /\ normalized = <<>>

\* lib.rs: pub fn find_relevant_files
LibFindRelevantFiles ==
    /\ pc = "start"
    /\ unit = "lib_select"
    /\ \E ok \in BOOLEAN :
        /\ read_dir_ok' = ok
        /\ matches' = find_relevant_files(entries, ok, query, FallbackTakeLib)
    /\ pc' = "done"
    /\ UNCHANGED <<unit, entries, query, dir_exists, used, pending, contents,
                   prompt, posts, res, err, answer, pretty, raw_text, normalized>>

\* main.rs: fn find_relevant_files
MainFindRelevantFiles ==
    /\ pc = "start"
    /\ unit = "main_select"
    /\ \E ok \in BOOLEAN :
        /\ read_dir_ok' = ok
        /\ matches' = find_relevant_files(entries, ok, query, FallbackTakeMain)
    /\ pc' = "done"
    /\ UNCHANGED <<unit, entries, query, dir_exists, used, pending, contents,
                   prompt, posts, res, err, answer, pretty, raw_text, normalized>>

NextSelect == LibFindRelevantFiles \/ MainFindRelevantFiles

SpecSelect == InitSelect /\ [][NextSelect]_vars

-----------------------------------------------------------------------------
(* The command line pipeline (main.rs) and the generation client (lib.rs) *)

Init ==
    /\ pc = "start"
    /\ unit \in {"main", "lib"}
    /\ entries \in (IF unit = "main" THEN Dirs(MaxMainDirLen) ELSE {<<>>})
    /\ read_dir_ok = FALSE
    /\ query \in Queries(MaxMainQueryWords)
    /\ matches = <<>>
    /\ dir_exists = FALSE
    /\ used = <<>>
    /\ pending = <<>>
    /\ contents \in (IF unit = "main" THEN {<<>>} ELSE LibContents)
    /\ prompt = NoPrompt
    /\ posts = 0
    /\ res = NoResponse
    /\ err = NoMsg
    /\ answer = NoMsg
    /\ pretty = NoMsg
    /\ raw_text = <<>>
    /\ normalized = <<>>

MainCheckDataDirNoBail ==
    /\ pc = "start"
    /\ unit = "main"
    /\ \E exists \in BOOLEAN :
        /\ dir_exists' = exists
        /\ pc' = "select"
        /\ err' = err
    /\ UNCHANGED <<unit, entries, read_dir_ok, query, matches, used, pending, contents,
                   prompt, posts, res, answer, pretty, raw_text, normalized>>

\* main.rs 74-79: bail when the data folder does not exist
MainCheckDataDir ==
    /\ pc = "start"
    /\ unit = "main"
    /\ \E exists \in BOOLEAN :
        /\ dir_exists' = exists
        /\ IF exists
           THEN pc' = "select" /\ err' = err
           ELSE pc' = "done" /\ err' = Error(MsgDataFolderNotFound)
    /\ UNCHANGED <<unit, entries, read_dir_ok, query, matches, used, pending, contents,
                   prompt, posts, res, answer, pretty, raw_text, normalized>>

\* main.rs 81-90: select the files, bail when there are none, print them.
\* A folder that does not exist cannot be read.
MainSelect ==
    /\ pc = "select"
    /\ \E ok \in (IF dir_exists THEN BOOLEAN ELSE {FALSE}) :
        LET relevant_files == find_relevant_files(entries, ok, query, FallbackTakeMain) IN
        /\ read_dir_ok' = ok
        /\ matches' = relevant_files
        /\ IF relevant_files = <<>>
           THEN /\ pc' = "done"
                /\ err' = Error(MsgNoInvoiceFiles)
                /\ UNCHANGED <<used, pending>>
           ELSE /\ pc' = "read"
                /\ used' = relevant_files
                /\ pending' = relevant_files
                /\ err' = err
    /\ UNCHANGED <<unit, entries, query, dir_exists, contents, prompt, posts, res,
                   answer, pretty, raw_text, normalized>>

MainReadFileSkipUnreadable ==
    /\ pc = "read"
    /\ pending # <<>>
    /\ \E read_ok \in BOOLEAN :
        /\ pending' = Tail(pending)
        /\ contents' = IF read_ok
                       THEN Append(contents, Segment(Head(pending), FileText(Head(pending))))
                       ELSE contents
    /\ UNCHANGED <<pc, err, unit, entries, read_dir_ok, query, matches, dir_exists, used,
                   prompt, posts, res, answer, pretty, raw_text, normalized>>

\* main.rs 94-98: one turn of the loop that reads the selected files
MainReadFile ==
    /\ pc = "read"
    /\ pending # <<>>
    /\ \E read_ok \in BOOLEAN :
        IF read_ok
        THEN /\ contents' = Append(contents, Segment(Head(pending), FileText(Head(pending))))
             /\ pending' = Tail(pending)
             /\ UNCHANGED <<pc, err>>
        ELSE /\ err' = Error(MsgFailedToRead(Head(pending)))
             /\ pc' = "done"
             /\ UNCHANGED <<contents, pending>>
    /\ UNCHANGED <<unit, entries, read_dir_ok, query, matches, dir_exists, used,
                   prompt, posts, res, answer, pretty, raw_text, normalized>>

MainSendRetry ==
    /\ pc = "read"
    /\ pending = <<>>
    /\ prompt' = Prompt("invoice calculator", contents, query)
    /\ posts' = posts + 1
    /\ \E sent \in BOOLEAN :
        IF sent
        THEN /\ \E r \in Responses : res' = r
             /\ pc' = "status"
             /\ err' = err
        ELSE /\ res' = res
             /\ pc' = pc
             /\ err' = err
    /\ UNCHANGED <<unit, entries, read_dir_ok, query, matches, dir_exists, used, pending,
                   contents, answer, pretty, raw_text, normalized>>

\* main.rs 100-142: build the prompt and the request, POST it once
MainSend ==
    /\ pc = "read"
    /\ pending = <<>>
    /\ prompt' = Prompt("invoice calculator", contents, query)
    /\ posts' = posts + 1
    /\ \E sent \in BOOLEAN :
        IF sent
        THEN /\ \E r \in Responses : res' = r
             /\ pc' = "status"
             /\ err' = err
        ELSE /\ res' = res
             /\ pc' = "done"
             /\ err' = Error(MsgCannotReachMain)
    /\ UNCHANGED <<unit, entries, read_dir_ok, query, matches, dir_exists, used, pending,
                   contents, answer, pretty, raw_text, normalized>>

\* main.rs 144-153: a non-success status ends the request with the status
\* and the trimmed body, or "No response body" when the body cannot be read
MainCheckStatus ==
    /\ pc = "status"
    /\ unit = "main"
    /\ IF is_success(res.status)
       THEN pc' = "decode" /\ err' = err /\ res' = res
       ELSE /\ pc' = "done"
            /\ \E body_ok \in BOOLEAN :
                /\ res' = BodyRead(res, body_ok)
                /\ err' = Error(MsgStatusMain(res.status,
                                              IF body_ok THEN res.body ELSE NoResponseBody))
    /\ UNCHANGED <<unit, entries, read_dir_ok, query, matches, dir_exists, used, pending,
                   contents, prompt, posts, answer, pretty, raw_text, normalized>>

\* main.rs 155-164: decode the body, print the reply and, when it is JSON,
\* its pretty-printed value
MainDecode ==
    /\ pc = "decode"
    /\ unit = "main"
    /\ \E body_ok \in BOOLEAN :
        LET ollama_res == IF body_ok THEN DecodeOllamaResponse(res.body) ELSE DecodeFail IN
        IF ollama_res.ok
        THEN /\ answer' = Printed(trim(ollama_res.response))
             /\ pretty' = IF from_str(ollama_res.response).ok
                          THEN [set |-> TRUE, text |-> <<from_str(ollama_res.response).val>>]
                          ELSE pretty
             /\ err' = err
             /\ res' = BodyRead(res, body_ok)
        ELSE /\ err' = Error(MsgInvalidJsonMain)
             /\ res' = BodyRead(res, body_ok)
             /\ UNCHANGED <<answer, pretty>>
    /\ pc' = "done"
    /\ UNCHANGED <<unit, entries, read_dir_ok, query, matches, dir_exists, used, pending,
                   contents, prompt, posts, raw_text, normalized>>

\* lib.rs 61-101: query_ollama builds the prompt and the request, POSTs it once
QuerySend ==
    /\ pc = "start"
    /\ unit = "lib"
    /\ prompt' = Prompt("invoice processor", contents, query)
    /\ posts' = posts + 1
    /\ \E sent \in BOOLEAN :
        IF sent
        THEN /\ \E r \in Responses : res' = r
             /\ pc' = "status"
             /\ err' = err
        ELSE /\ res' = res
             /\ pc' = "done"
             /\ err' = Error(MsgCannotReachLib)
    /\ UNCHANGED <<unit, entries, read_dir_ok, query, matches, dir_exists, used, pending,
                   contents, answer, pretty, raw_text, normalized>>

QueryCheckStatusFallThrough ==
    /\ pc = "status"
    /\ unit = "lib"
    /\ pc' = "decode"
    /\ IF is_success(res.status)
       THEN err' = err
       ELSE \E body_ok \in BOOLEAN :
                err' = Error(MsgStatusLib(res.status, IF body_ok THEN res.body ELSE <<>>))
    /\ UNCHANGED <<unit, entries, read_dir_ok, query, matches, dir_exists, used, pending,
                   contents, prompt, posts, res, answer, pretty, raw_text, normalized>>

\* lib.rs 103-107: a non-success status ends the call with the status and
\* the body, or an empty text when the body cannot be read
QueryCheckStatus ==
    /\ pc = "status"
    /\ unit = "lib"
    /\ IF is_success(res.status)
       THEN pc' = "decode" /\ err' = err /\ res' = res
       ELSE /\ pc' = "done"
            /\ \E body_ok \in BOOLEAN :
                /\ res' = BodyRead(res, body_ok)
                /\ err' = Error(MsgStatusLib(res.status, IF body_ok THEN res.body ELSE <<>>))
    /\ UNCHANGED <<unit, entries, read_dir_ok, query, matches, dir_exists, used, pending,
                   contents, prompt, posts, answer, pretty, raw_text, normalized>>

\* lib.rs 109-110: decode the body and return its response field
QueryDecode ==
    /\ pc = "decode"
    /\ unit = "lib"
    /\ \E body_ok \in BOOLEAN :
        LET ollama_res == IF body_ok THEN DecodeOllamaResponse(res.body) ELSE DecodeFail IN
        /\ res' = BodyRead(res, body_ok)
        /\ IF ollama_res.ok
           THEN answer' = Returned(ollama_res.response) /\ err' = err
           ELSE err' = Error(MsgInvalidJsonLib) /\ answer' = answer
    /\ pc' = "done"
    /\ UNCHANGED <<unit, entries, read_dir_ok, query, matches, dir_exists, used, pending,
                   contents, prompt, posts, pretty, raw_text, normalized>>

Next ==
    \/ MainCheckDataDir
    \/ MainSelect
    \/ MainReadFile
    \/ MainSend
    \/ MainCheckStatus
    \/ MainDecode
    \/ QuerySend
    \/ QueryCheckStatus
    \/ QueryDecode

Spec == Init /\ [][Next]_vars

-----------------------------------------------------------------------------
(* The response normalizer of the service (spec 4.4) *)

RawKey == <<"r", "a", "w">>

\* normalize(rawText): the parsed value, or {"raw": rawText} when the text
\* is not JSON
normalize(text) ==
    IF from_str(text).ok
    THEN from_str(text).val
    ELSE JsonObj(<<JsonMember(RawKey, JsonStr(text))>>)

ReplyChars == {"[", "]", ",", "\"", "1", "a", " "}

ReplyTexts == SeqsUpTo(ReplyChars, MaxReplyLen)

InitNormalize ==
    /\ pc = "start"
    /\ unit = "normalize"
    /\ raw_text \in ReplyTexts
    /\ normalized = <<>>
    /\ entries = <<>>
    /\ read_dir_ok = FALSE
    /\ query = <<>>
    /\ matches = <<>>
    /\ dir_exists = FALSE
    /\ used = <<>>
    /\ pending = <<>>
    /\ contents = <<>>
    /\ prompt = NoPrompt
    /\ posts = 0
    /\ res = NoResponse
    /\ err = NoMsg
    /\ answer = NoMsg
    /\ pretty = NoMsg

Normalize ==
    /\ pc = "start"
    /\ unit = "normalize"
    /\ normalized' = <<normalize(raw_text)>>
    /\ pc' = "done"
    /\ UNCHANGED <<unit, entries, read_dir_ok, query, matches, dir_exists, used, pending,
                   contents, prompt, posts, res, err, answer, pretty, raw_text>>

NextNormalize == Normalize

SpecNormalize == InitNormalize /\ [][NextNormalize]_vars

-----------------------------------------------------------------------------
(* Properties of the selection *)

\* what the request saw of the directory
Listing == ReadDir(entries, read_dir_ok)

IsTxtFile(name) == ends_with(name, DotTxt)

InResult(name) == \E i \in 1..Len(matches) : matches[i] = name

StemInQuery(name) == contains(to_lowercase(query), to_lowercase(file_stem(name)))

\* the query holds the token "invoice" in some letter case
HasInvoiceToken ==
    \E i \in 0..(Len(query) - Len(Invoice)) :
        \A k \in 1..Len(Invoice) : LowerChar(query[i + k]) = Invoice[k]

FirstPassMatch(name) == IsTxtFile(name) /\ (StemInQuery(name) \/ HasInvoiceToken)

AnyFirstPassMatch == \E i \in 1..Len(Listing) : FirstPassMatch(Listing[i])

PositionIn(listing, name) == CHOOSE i \in 1..Len(listing) : listing[i] = name

FallbackTake == IF unit = "lib_select" THEN FallbackTakeLib ELSE FallbackTakeMain

Selected == pc = "done" /\ unit \in {"lib_select", "main_select"}

\* C1: when the first pass matches nothing, the result is a non-empty fallback
\* of at most 2 (lib.rs) or 1 (main.rs) files whenever the directory is not
\* empty.  "Not empty" is read here in the code's favour, as "holds a file the
\* fallback pass itself accepts"; the literal reading fails on the same states
\* and more.
C1_FallbackNonEmpty ==
    (/\ Selected
     /\ ~AnyFirstPassMatch
     /\ \E i \in 1..Len(Listing) : extension(Listing[i]) = Some(Txt))
        => (matches # <<>> /\ Len(matches) <= FallbackTake)

\* C2: a .txt file whose lower-cased stem occurs in the lower-cased query is
\* in the result.
C2_StemMatchIncluded ==
    Selected =>
        \A i \in 1..Len(Listing) :
            (IsTxtFile(Listing[i]) /\ StemInQuery(Listing[i])) => InResult(Listing[i])

\* a file is selected by its stem alone, its name differing from the query in
\* letter case, while another .txt file of the directory is left out
C2_Witness ==
    /\ Selected
    /\ ~HasInvoiceToken
    /\ \E i, j \in 1..Len(Listing) :
        /\ IsTxtFile(Listing[i]) /\ StemInQuery(Listing[i]) /\ InResult(Listing[i])
        /\ ~contains(query, file_stem(Listing[i]))
        /\ IsTxtFile(Listing[j]) /\ ~InResult(Listing[j])

\* C3: when the query holds "invoice" in any letter case, every .txt file of
\* the directory is in the result.
C3_InvoiceSelectsAll ==
    (Selected /\ HasInvoiceToken) =>
        \A i \in 1..Len(Listing) : IsTxtFile(Listing[i]) => InResult(Listing[i])

\* a query spelling the token with capitals selects two .txt files, one of
\* them without its stem in the query
C3_Witness ==
    /\ Selected
    /\ HasInvoiceToken
    /\ ~contains(query, Invoice)
    /\ Len(matches) >= 2
    /\ \E i \in 1..Len(matches) : ~StemInQuery(matches[i])

\* C10: when the first pass matches at least one .txt file, the result is
\* exactly the matching .txt files, each once, in enumeration order.
C10_ExactlyFirstPass ==
    (Selected /\ AnyFirstPassMatch) =>
        /\ \A i \in 1..Len(matches) :
            /\ \E j \in 1..Len(Listing) : Listing[j] = matches[i]
            /\ FirstPassMatch(matches[i])
        /\ \A j \in 1..Len(Listing) : FirstPassMatch(Listing[j]) => InResult(Listing[j])
        /\ IsInjective(matches)
        /\ \A i, k \in 1..Len(matches) :
            i < k => PositionIn(Listing, matches[i]) < PositionIn(Listing, matches[k])

\* two files are selected from a directory that also holds a .txt file that
\* does not match and an entry that is no .txt file but whose stem matches
C10_Witness ==
    /\ Selected
    /\ AnyFirstPassMatch
    /\ Len(matches) >= 2
    /\ \E j \in 1..Len(Listing) :
        ~IsTxtFile(Listing[j]) /\ StemInQuery(Listing[j]) /\ ~InResult(Listing[j])

-----------------------------------------------------------------------------
(* Properties of the pipeline and of the generation client *)

Paths(docs) == { docs[i].path : i \in 1..Len(docs) }

Elements(s) == { s[i] : i \in 1..Len(s) }

ReachedBackend == posts > 0

\* C4: in every request of main that reaches the backend, the file names
\* printed as used are exactly the documents concatenated into the prompt.
C4_UsedEqualsPrompt ==
    (unit = "main" /\ ReachedBackend) => Elements(used) = Paths(prompt.contents)

\* main has sent a prompt made of two documents
C4_Witness ==
    /\ unit = "main"
    /\ ReachedBackend
    /\ Len(prompt.contents) = 2
    /\ Cardinality(Elements(used)) = 2

NonSuccessAnswered == pc = "done" /\ res.status # 0 /\ ~is_success(res.status)

\* what the message shows of the body: main.rs trims it and lib.rs does not;
\* a body that could not be read is replaced
CarriedBody ==
    IF unit = "main"
    THEN (IF res.read = "ok" THEN trim(res.body) ELSE NoResponseBody)
    ELSE (IF res.read = "ok" THEN res.body ELSE <<>>)

\* C6 as stated: after a non-success status the call fails with a message
\* that carries the status code and the response body, and gives no answer.
C6_StatusAndBodyInError ==
    NonSuccessAnswered =>
        /\ err.set
        /\ ~answer.set
        /\ contains(err.text, StatusDigits(res.status))
        /\ contains(err.text, res.body)

\* C6 as amended: the message carries the status code and the body as read,
\* trimmed of surrounding whitespace in main.rs, or the replacement text when
\* the body could not be read; no answer is given.
C6_StatusAndReadBodyInError ==
    NonSuccessAnswered =>
        /\ err.set
        /\ ~answer.set
        /\ res.read # "unread"
        /\ contains(err.text, StatusDisplay(res.status))
        /\ ends_with(err.text, CarriedBody)

\* HTTP 500 with a body that decodes as a reply: the body is in the error
\* and is not returned as the answer
C6_Witness ==
    /\ NonSuccessAnswered
    /\ res.status = 500
    /\ res.read = "ok"
    /\ DecodeOllamaResponse(res.body).ok
    /\ err.set

\* C7: at most one POST is sent per query, and a request that has failed has
\* ended.
C7_SingleAttempt ==
    /\ posts <= 1
    /\ err.set => pc = "done"

\* the one POST failed in transport and the request ended there
C7_Witness ==
    /\ pc = "done"
    /\ posts = 1
    /\ res = NoResponse
    /\ err.set

\* C8: no request holds both an answer and an error, and a request that has
\* ended holds exactly one of them.
C8_AnswerXorError ==
    /\ ~(answer.set /\ err.set)
    /\ pc = "done" => (answer.set \/ err.set)

\* query_ollama returns the reply after a success status
C8_Witness ==
    /\ pc = "done"
    /\ unit = "lib"
    /\ answer.set
    /\ ~err.set
    /\ is_success(res.status)

AllRead == pending = <<>> /\ Paths(contents) = Elements(matches)

\* C9: main contacts the backend only after the data folder was found, the
\* selection was not empty and every selected file was read; otherwise the
\* request ends with the error of the step that failed and nothing is sent.
C9_BackendOnlyAfterReads ==
    unit = "main" =>
        /\ ReachedBackend => (dir_exists /\ matches # <<>> /\ AllRead)
        /\ (pc = "done" /\ ~dir_exists) =>
                (posts = 0 /\ err = Error(MsgDataFolderNotFound))
        /\ (pc = "done" /\ dir_exists /\ matches = <<>>) =>
                (posts = 0 /\ err = Error(MsgNoInvoiceFiles))
        /\ (pc = "done" /\ matches # <<>> /\ ~AllRead) =>
                (posts = 0 /\ pending # <<>> /\ err = Error(MsgFailedToRead(Head(pending))))

\* the second of two selected files could not be read: nothing was sent
C9_Witness ==
    /\ unit = "main"
    /\ pc = "done"
    /\ Len(matches) = 2
    /\ Len(contents) = 1
    /\ err.set
    /\ posts = 0

-----------------------------------------------------------------------------
(* Properties of the normalizer *)

Spaces(n) == [i \in 1..n |-> " "]

\* the grammar of JSON text over ReplyChars, written as the texts it
\* generates: Values(n) are the values of at most n characters
RECURSIVE Values(_)
RECURSIVE Elems(_)

\* a value with whitespace around it
Padded(n) ==
    { t \in { Spaces(i) \o v \o Spaces(j) : i \in 0..n, j \in 0..n, v \in Values(n) } :
        Len(t) <= n }

\* one or more padded values separated by commas
Elems(n) ==
    IF n < 1 THEN {}
    ELSE Padded(n) \cup
         { t \in { p \o <<",">> \o e : p \in Padded(n - 2), e \in Elems(n - 2) } :
             Len(t) <= n }

Values(n) ==
    IF n < 1 THEN {}
    ELSE { [i \in 1..k |-> "1"] : k \in 1..n }
         \cup (IF n < 2 THEN {}
               ELSE { <<"\"">> \o c \o <<"\"">> :
                        c \in SeqsUpTo(ReplyChars \ {"\""}, n - 2) }
                    \cup { <<"[">> \o Spaces(i) \o <<"]">> : i \in 0..(n - 2) }
                    \cup { <<"[">> \o e \o <<"]">> : e \in Elems(n - 2) })

ValidJson == Padded(MaxReplyLen)

Normalized == pc = "done" /\ unit = "normalize"

====
